---- MODULE Spec2Model ----
(***************************************************************************)
(* A model of the harmonica tidal-constituent extractors:                  *)
(*   - convert_coords (tidal_database.py), the coordinate validator;       *)
(*   - LeProvostDB.get_components (leprovost_database.py), the regular     *)
(*     grid extractor used for the 'leprovost' and 'fes2014' models;       *)
(*   - TpxoDB.get_components (tpxo_database.py), the bisection extractor.  *)
(*   - TidalDB.get_nodal_factor (tidal_database.py) with the orbit engine  *)
(*     set_orbit, the node factors nfacs and the arguments gterms.         *)
(*                                                                         *)
(* Numbers.  Coordinates, grid spacings and raw amplitudes are integers    *)
(* (degrees, database units); phases stored in a grid are multiples of 90  *)
(* degrees, so that cos and sin are exact.  A quotient is kept as a        *)
(* reduced fraction <<num, den>>.  A float held by a grid or a result row  *)
(* is a tuple: <<>> is NaN, <<v>> the value v; an amplitude <<num, den>>   *)
(* is the square root of num/den, kept symbolically.  An interpolated      *)
(* phase angle is recorded exactly when it is a multiple of 45 degrees     *)
(* and otherwise by the integer representative of the open 45-degree       *)
(* sector it lies in (22, 67, 112, 157 and their reflections).             *)
(***************************************************************************)
EXTENDS Integers, Sequences, FiniteSets, TLC

VARIABLES
    model,       \* self.model: the name of the tidal database model
    atts,        \* resources.model_atts.dataset_attributes() (regular grids)
    nan_amp,     \* grid cells <<x, y>> whose amplitude (hRe) is NaN in the files
    nan_phase,   \* grid cells <<x, y>> whose phase (hIm) is NaN in the files
    data,        \* self.data: one table (constituent name -> row) per point
    locs,        \* the caller's location list, as the last call left it
    req,         \* the arguments of the last get_components call
    outcome,     \* how the last call ended
    calls_left,  \* calls the caller may still make
    points_left, \* points the caller may still pass to get_components
    zero_to_360, \* convert_coords: the convention flag of the last application
    coords,      \* convert_coords: the caller's coordinate list
    ret,         \* convert_coords: what the last application returned
    prev,        \* convert_coords: the list before the last application
    orbit,       \* self.orbit: the scratch state astro, grterm and nodfac
    con_data,    \* the table the last get_nodal_factor call returned
    nodal_req,   \* the arguments of the last get_nodal_factor call
    orbit_calls, \* the set_orbit invocations of that call
    orbit_before \* self.orbit as that call found it

vars == <<model, atts, nan_amp, nan_phase, data, locs, req, outcome, calls_left,
          points_left, zero_to_360, coords, ret, prev, orbit, con_data, nodal_req,
          orbit_calls, orbit_before>>

nodal_vars == <<orbit, con_data, nodal_req, orbit_calls, orbit_before>>

NaN == <<>>
None == <<"None">>

(***************************************************************************)
(* Bounds of the exploration.                                              *)
(***************************************************************************)
MaxCalls == 2     \* get_components calls made on one extractor
MaxPoints == 2    \* points passed to one extractor, over all its calls
MaxProbes == 1    \* points passed to the extractor of SpecCorners
MaxCoords == 2    \* longest batch passed to convert_coords
MaxApply == 2     \* successive convert_coords applications to one list
MaxRequests == 2  \* get_nodal_factor calls made on one extractor

(***************************************************************************)
(* tidal_database.py: the reference table.  The floats are kept as the     *)
(* literals of the source: (speed, amplitude, frequency, ETRF).            *)
(***************************************************************************)
NOAA_SPEEDS ==
    [OO1 |-> <<"16.139101", "0.0", "0.00007824457305", "0.069">>,
     2Q1 |-> <<"12.854286", "0.0", "0.000062319338107", "0.069">>,
     2MK3 |-> <<"42.92714", "0.0", "0.000208116646659", "0.069">>,
     2N2 |-> <<"27.895355", "0.0", "0.000135240496464", "0.069">>,
     2SM2 |-> <<"31.015896", "0.0", "0.000150369306157", "0.069">>,
     K1 |-> <<"15.041069", "0.141565", "0.000072921158358", "0.736">>,
     K2 |-> <<"30.082138", "0.030704", "0.000145842317201", "0.693">>,
     J1 |-> <<"15.5854435", "0.0", "0.00007556036138", "0.069">>,
     L2 |-> <<"29.528479", "0.0", "0.000143158105531", "0.069">>,
     LAM2 |-> <<"29.455626", "0.0", "0.000142804901311", "0.069">>,
     M1 |-> <<"14.496694", "0.0", "0.000070281955336", "0.069">>,
     M2 |-> <<"28.984104", "0.242334", "0.000140518902509", "0.693">>,
     M3 |-> <<"43.47616", "0.0", "0.000210778353763", "0.069">>,
     M4 |-> <<"57.96821", "0.0", "0.000281037805017", "0.069">>,
     M6 |-> <<"86.95232", "0.0", "0.000421556708011", "0.069">>,
     M8 |-> <<"115.93642", "0.0", "0.000562075610519", "0.069">>,
     MF |-> <<"1.0980331", "0.0", "0.000005323414692", "0.069">>,
     MK3 |-> <<"44.025173", "0.0", "0.000213440061351", "0.069">>,
     MM |-> <<"0.5443747", "0.0", "0.000002639203022", "0.069">>,
     MN4 |-> <<"57.423832", "0.0", "0.000278398601995", "0.069">>,
     MS4 |-> <<"58.984104", "0.0", "0.000285963006842", "0.069">>,
     MSF |-> <<"1.0158958", "0.0", "0.000004925201824", "0.069">>,
     MU2 |-> <<"27.968208", "0.0", "0.000135593700684", "0.069">>,
     N2 |-> <<"28.43973", "0.046398", "0.000137879699487", "0.693">>,
     NU2 |-> <<"28.512583", "0.0", "0.000138232903707", "0.069">>,
     O1 |-> <<"13.943035", "0.100514", "0.000067597744151", "0.695">>,
     P1 |-> <<"14.958931", "0.046834", "0.000072522945975", "0.706">>,
     Q1 |-> <<"13.398661", "0.019256", "0.000064958541129", "0.695">>,
     R2 |-> <<"30.041067", "0.0", "0.000145643201313", "0.069">>,
     RHO |-> <<"13.471515", "0.0", "0.000065311745349", "0.069">>,
     S1 |-> <<"15.0", "0.0", "0.000072722052166", "0.069">>,
     S2 |-> <<"30.0", "0.112841", "0.000145444104333", "0.693">>,
     S4 |-> <<"60.0", "0.0", "0.000290888208666", "0.069">>,
     S6 |-> <<"90.0", "0.0", "0.000436332312999", "0.069">>,
     SA |-> <<"0.0410686", "0.0", "0.000000199106191", "0.069">>,
     SSA |-> <<"0.0821373", "0.0", "0.000000398212868", "0.069">>,
     T2 |-> <<"29.958933", "0.0", "0.000145245007353", "0.069">>]

(***************************************************************************)
(* Arithmetic helpers.                                                     *)
(***************************************************************************)
Abs(a) == IF a < 0 THEN -a ELSE a

Sign(a) == IF a < 0 THEN -1 ELSE IF a > 0 THEN 1 ELSE 0

RECURSIVE Gcd(_, _)
Gcd(a, b) == IF b = 0 THEN a ELSE Gcd(b, a % b)

\* The fraction n/d (d # 0) in lowest terms with a positive denominator.
Frac(n, d) ==
    LET g == Gcd(Abs(n), Abs(d))
        s == Sign(d)
    IN  <<(s * n) \div g, (s * d) \div g>>

FracAdd(p, q) == Frac(p[1] * q[2] + q[1] * p[2], p[2] * q[2])

FracMul(p, q) == Frac(p[1] * q[1], p[2] * q[2])

\* Python's int(a / b) for b > 0: the quotient truncated toward zero.
IntTrunc(a, b) == IF a >= 0 THEN a \div b ELSE -((-a) \div b)

\* math.cos and math.sin of d degrees, d a multiple of 90.
CosDeg(d) == CASE d % 360 = 0 -> 1 [] d % 360 = 180 -> -1 [] OTHER -> 0

SinDeg(d) == CASE d % 360 = 90 -> 1 [] d % 360 = 270 -> -1 [] OTHER -> 0

(***************************************************************************)
(* tidal_database.py: convert_coords.                                      *)
(***************************************************************************)
\* Lines 102-105 with the step of lines 102-103 taken under the signed
\* convention only.
WrapLonSignedOnly(x_lon, z360) ==
    IF z360 THEN x_lon
    ELSE LET a == IF x_lon < 0 THEN x_lon + 360 ELSE x_lon
         IN  IF a > 180 THEN a - 360 ELSE a

\* Lines 102-105: the longitude after the two wrapping steps.
WrapLon(x_lon, z360) ==
    LET a == IF x_lon < 0 THEN x_lon + 360 ELSE x_lon
    IN  IF ~z360 /\ a > 180 THEN a - 360 ELSE a

\* Line 107.
bad_lat(y_lat) == y_lat > 90 \/ y_lat < -90

\* Lines 108-109 with the upper bounds left out.
bad_lon_lower_only(x_lon, z360) ==
    \/ ~z360 /\ x_lon < -180
    \/ z360 /\ x_lon < 0

\* Line 108 alone, its test applied under both conventions.
bad_lon_signed_bounds(x_lon, z360) == x_lon > 180 \/ x_lon < -180

\* Lines 108-109, on the wrapped longitude.
bad_lon(x_lon, z360) ==
    \/ ~z360 /\ (x_lon > 180 \/ x_lon < -180)
    \/ z360 /\ (x_lon > 360 \/ x_lon < 0)

\* The loop of lines 99-114 from index idx on: the list is rewritten in place
\* entry by entry, and the first bad point returns None at once.
RECURSIVE ConvertFrom(_, _, _)
ConvertFrom(cs, idx, z360) ==
    IF idx > Len(cs) THEN [none |-> FALSE, coords |-> cs]
    ELSE LET y_lat == cs[idx][1]
             x_lon == WrapLon(cs[idx][2], z360)
         IN  IF bad_lat(y_lat) \/ bad_lon(x_lon, z360)
             THEN [none |-> TRUE, coords |-> cs]
             ELSE ConvertFrom([cs EXCEPT ![idx] = <<y_lat, x_lon>>], idx + 1, z360)

\* convert_coords working on a copy of the list, which it hands back only
\* when no point is bad.
convert_coords_on_copy(cs, z360) ==
    IF ConvertFrom(cs, 1, z360).none THEN [none |-> TRUE, coords |-> cs]
    ELSE ConvertFrom(cs, 1, z360)

\* convert_coords(coords, zero_to_360): whether it returns None, and what the
\* caller's list holds afterwards; the list returned otherwise is that list.
convert_coords(cs, z360) == ConvertFrom(cs, 1, z360)

(***************************************************************************)
(* The resource layer (resource.py): what a loaded model hands to the      *)
(* extractors.  Every model's files hold K1 and M2; the FES2014 files also *)
(* hold LA2, a constituent the reference table has no entry for.           *)
(***************************************************************************)
LEPROVOST_MODELS == {"leprovost", "fes2014"}

TPXO_MODELS == {"tpxo9"}

available_constituents(m) ==
    IF m = "fes2014" THEN {"K1", "LA2", "M2"} ELSE {"K1", "M2"}

\* The names a request can carry, in Python's string order (sorted()).
SortedNames == <<"K1", "LA2", "M2", "S2", "m2">>

\* dataset_attributes() of the regular-grid models.
RegularAtts(m) ==
    [num_lats |-> 3, num_lons |-> 4, min_lon |-> IF m = "fes2014" THEN 0 ELSE -180]

\* The index of a constituent in the files' name array.
ConIndex(con) == CASE con = "K1" -> 1 [] con = "M2" -> 0 [] OTHER -> 2

\* The tide the files hold for constituent con at column x, row y, where they
\* hold one: amplitude in database units and phase in degrees.
FileAmp(con, x, y) == 100 + 100 * ((x + 2 * y + ConIndex(con)) % 3)

FilePhase(con, x, y) == 90 * ((x + y + ConIndex(con)) % 4)

\* Regular-grid files: the amplitude and phase arrays.
GridAmp(con, x, y) == IF <<x, y>> \in nan_amp THEN NaN ELSE <<FileAmp(con, x, y)>>

GridPhase(con, x, y) == IF <<x, y>> \in nan_phase THEN NaN ELSE <<FilePhase(con, x, y)>>

\* TPXO files: the real and imaginary arrays hRe and hIm, the tide being
\* hRe - i*hIm, and the per-constituent coordinate arrays lat_z and lon_z.
hRe(con, x, y) ==
    IF <<x, y>> \in nan_amp THEN NaN
    ELSE <<FileAmp(con, x, y) * CosDeg(FilePhase(con, x, y))>>

hIm(con, x, y) ==
    IF <<x, y>> \in nan_phase THEN NaN
    ELSE <<-(FileAmp(con, x, y) * SinDeg(FilePhase(con, x, y)))>>

TpxoAtts == [lat_z |-> <<-90, 0, 90>>, lon_z |-> <<0, 90, 180, 270, 360>>]

\* get_units_multiplier() of the TPXO models.
UnitsMultiplier == 1

(***************************************************************************)
(* tidal_database.py: get_complex_components, for a phase that is a        *)
(* multiple of 90 degrees (math.radians of it is taken by the caller).     *)
(***************************************************************************)
\* One entry of the result: [amp * cos(phase), amp * sin(phase)]; a NaN operand
\* gives NaN components.
ComplexComponent(amp, phase) ==
    IF amp = NaN \/ phase = NaN THEN <<NaN, NaN>>
    ELSE <<<<amp[1] * CosDeg(phase[1])>>, <<amp[1] * SinDeg(phase[1])>>>>

get_complex_components(amps, phases) ==
    [idx \in 1..Len(amps) |-> ComplexComponent(amps[idx], phases[idx])]

\* math.degrees(math.acos(x / r)) for the vector <<x, y>> # <<0, 0>> of length r:
\* exact on the multiples of 45 degrees, the sector's representative between.
AcosDeg(x, y) ==
    LET ay == Abs(y)
    IN  CASE ay = 0 /\ x > 0 -> 0
          [] x > ay /\ ay > 0 -> 22
          [] x = ay -> 45
          [] x > 0 /\ x < ay -> 67
          [] x = 0 -> 90
          [] x < 0 /\ -x < ay -> 112
          [] -x = ay -> 135
          [] -x > ay /\ ay > 0 -> 157
          [] OTHER -> 180

(***************************************************************************)
(* leprovost_database.py: LeProvostDB.get_components.                      *)
(***************************************************************************)
\* str.upper() on the names a request can carry.
Upper(name) == IF name = "m2" THEN "M2" ELSE IF name = "la2" THEN "LA2" ELSE name

\* Lines 56-59: the constituent names the request resolves to.
LeProvostCons(m, cons) ==
    IF cons = None \/ cons = <<>> THEN available_constituents(m)
    ELSE {Upper(cons[k]) : k \in 1..Len(cons)}

\* Lines 87-97 for the one-based xlo and ylo of lines 86 and 91: the zero-based
\* indices of the bracketing cell and the coordinates of its low corner.
CellAt(a, d_lat, d_lon, xlo, ylo) ==
    [xlo |-> xlo - 1,
     xhi |-> (IF xlo = a.num_lons THEN 1 ELSE xlo + 1) - 1,
     ylo |-> ylo - 1,
     yhi |-> (ylo + 1) - 1,
     xlonlo |-> a.min_lon + (xlo - 1) * d_lon,
     ylatlo |-> -90 + (ylo - 1) * d_lat,
     d_lat |-> d_lat, d_lon |-> d_lon]

\* Lines 86 and 91: both indices are computed with d_lon.
CellFor(pt, a, d_lat, d_lon) ==
    CellAt(a, d_lat, d_lon,
           IntTrunc(pt[2] - a.min_lon, d_lon) + 1,
           IntTrunc(pt[1] - (-90), d_lon) + 1)

\* Lines 69-97: the spacings and the bracketing cell of point pt.
Cell(pt, a) == CellFor(pt, a, 180 \div (a.num_lats - 1), 360 \div a.num_lons)

\* Lines 101-102.
out_of_bounds(c, a) ==
    \/ c.xlo > a.num_lons \/ c.xhi > a.num_lons
    \/ c.yhi > a.num_lats \/ c.ylo > a.num_lats
    \/ c.xlo < 0 \/ c.xhi < 0 \/ c.yhi < 0 \/ c.ylo < 0

\* Whether amp_dset[y][x] addresses a cell of the num_lats x num_lons array.
InGrid(x, y, a) == x \in 0..(a.num_lons - 1) /\ y \in 0..(a.num_lats - 1)

\* The four corners in the order of lines 143-144:
\* xlo_yhi, xhi_yhi, xlo_ylo, xhi_ylo.
Corners(c) == <<<<c.xlo, c.yhi>>, <<c.xhi, c.yhi>>, <<c.xlo, c.ylo>>, <<c.xhi, c.ylo>>>>

AllInGrid(cs, a) == \A k \in 1..4 : InGrid(cs[k][1], cs[k][2], a)

\* Lines 115-118 and 125-128: the amplitudes and phases read at the corners cs.
CornerAmps(con, cs) == [k \in 1..4 |-> GridAmp(con, cs[k][1], cs[k][2])]

CornerPhases(con, cs) == [k \in 1..4 |-> GridPhase(con, cs[k][1], cs[k][2])]

\* Lines 137-138 and the four weights of lines 152-166, as numerators over
\* d_lon * d_lat: (1-xratio)*yratio, xratio*yratio, (1-xratio)*(1-yratio),
\* (1-yratio)*xratio.
Weights(pt, c) ==
    LET wx1 == pt[2] - c.xlonlo
        wy1 == pt[1] - c.ylatlo
    IN  <<(c.d_lon - wx1) * wy1, wx1 * wy1,
          (c.d_lon - wx1) * (c.d_lat - wy1), (c.d_lat - wy1) * wx1>>

\* Lines 151, 155, 159, 163: the corners that enter the sums.
Usable(amps, phases) == {k \in 1..4 : amps[k] # NaN /\ phases[k] # NaN}

RECURSIVE SumOver(_, _)
SumOver(f, S) ==
    IF S = {} THEN 0
    ELSE LET k == CHOOSE k \in S : TRUE IN f[k] + SumOver(f, S \ {k})

\* Line 177.
Speed(con) == IF con \in DOMAIN NOAA_SPEEDS THEN <<NOAA_SPEEDS[con][1]>> ELSE NaN

\* Line 135.
SkipRow == [amplitude |-> NaN, phase |-> NaN, speed |-> NaN]

\* Line 135 writing the speed of line 177 instead of nan.
SkippedKeepSpeed(con) == [exc |-> "none", row |-> [SkipRow EXCEPT !.speed = Speed(con)]]

\* Lines 134-135: the pass of a skipped point, for constituent con.
Skipped(con) == [exc |-> "none", row |-> SkipRow]

\* x*x + y*y of two fractions: the square of the modulus.
SquaredModulus(x, y) == FracAdd(FracMul(x, x), FracMul(y, y))

\* Lines 172-175, for xcos and xsin not both zero.
PhaseOf(xcos, xsin) ==
    IF xsin[1] < 0 THEN 360 - AcosDeg(xcos[1] * xsin[2], xsin[1] * xcos[2])
    ELSE AcosDeg(xcos[1] * xsin[2], xsin[1] * xcos[2])

\* Line 176 (and line 94 of tpxo_database.py).
ShiftPhase(phase, positive_ph) == phase + (IF positive_ph /\ phase < 0 THEN 360 ELSE 0)

\* Lines 169-178, amp2 being xcos*xcos + xsin*xsin.  np_scalars says whether
\* the grid values are NumPy scalars (a float division by zero then gives nan
\* or inf) or Python floats (it raises ZeroDivisionError).
PolarRow(con, xcos, xsin, amp2, positive_ph, np_scalars) ==
    IF amp2[1] = 0
    THEN IF ~np_scalars THEN [exc |-> "ZeroDivisionError"]
         ELSE [exc |-> "none",
               row |-> [amplitude |-> <<0, 1>>, phase |-> NaN, speed |-> Speed(con)]]
    ELSE [exc |-> "none",
          row |-> [amplitude |-> Frac(amp2[1], amp2[2] * 10000),
                   phase |-> <<ShiftPhase(PhaseOf(xcos, xsin), positive_ph)>>,
                   speed |-> Speed(con)]]

\* Lines 167-178 for the sums sx, sy and the denominator sw over the usable
\* corners; the division of line 167 is between Python floats when no corner
\* was added.
Normalize(con, sx, sy, sw, use, positive_ph, np_scalars) ==
    IF sw = 0
    THEN IF use = {} \/ ~np_scalars THEN [exc |-> "ZeroDivisionError"]
         ELSE [exc |-> "none",
               row |-> [amplitude |-> IF sx = 0 \/ sy = 0 THEN NaN ELSE <<"inf">>,
                        phase |-> NaN, speed |-> Speed(con)]]
    ELSE PolarRow(con, Frac(sx, sw), Frac(sy, sw),
                  SquaredModulus(Frac(sx, sw), Frac(sy, sw)), positive_ph, np_scalars)

\* Lines 148-166: the weighted sums over the usable corners.
InterpolateSums(con, w, comps, use, positive_ph, np_scalars) ==
    Normalize(con,
              SumOver([k \in 1..4 |-> IF k \in use THEN comps[k][1][1] * w[k] ELSE 0], use),
              SumOver([k \in 1..4 |-> IF k \in use THEN comps[k][2][1] * w[k] ELSE 0], use),
              SumOver(w, use),
              use, positive_ph, np_scalars)

\* Lines 137-178: the row interpolated from the corners.
Interpolate(con, pt, c, amps, phases, positive_ph, np_scalars) ==
    InterpolateSums(con, Weights(pt, c), get_complex_components(amps, phases),
                    Usable(amps, phases), positive_ph, np_scalars)

\* Lines 119-178: the NaN tests on the values read, and the interpolation.
LeProvostRead(con, pt, c, amps, phases, positive_ph, np_scalars) ==
    IF (amps[1] = NaN /\ amps[2] = NaN) /\ (amps[3] = NaN /\ amps[4] = NaN)
    THEN Skipped(con)
    ELSE IF (phases[1] = NaN /\ phases[2] = NaN) /\ (phases[3] = NaN /\ phases[4] = NaN)
    THEN Skipped(con)
    ELSE Interpolate(con, pt, c, amps, phases, positive_ph, np_scalars)

\* Lines 98-178, for the cell c of pt and its corners cs.
LeProvostAt(con, pt, a, c, cs, positive_ph, np_scalars) ==
    IF out_of_bounds(c, a) THEN Skipped(con)
    ELSE IF ~AllInGrid(cs, a) THEN [exc |-> "IndexError"]
    ELSE LeProvostRead(con, pt, c, CornerAmps(con, cs), CornerPhases(con, cs),
                       positive_ph, np_scalars)

\* Lines 85-178: one pass of the inner loop, for constituent con and point pt.
LeProvostPoint(con, pt, a, positive_ph, np_scalars) ==
    LeProvostAt(con, pt, a, Cell(pt, a), Corners(Cell(pt, a)), positive_ph, np_scalars)

\* Lines 83-178: the two nested loops from work item k on, the items being
\* the pairs (constituent, point) in loop order.  An exception ends the call
\* and leaves the rows written so far in self.data.
RECURSIVE LeProvostLoop(_, _, _, _, _, _, _)
\* Lines 135 and 178: the pass r of item k stored as row con of table i.
LeProvostStore(cs, pts, a, positive_ph, np_scalars, k, d, con, i, r) ==
    IF r.exc # "none" THEN [data |-> d, exc |-> r.exc]
    ELSE LeProvostLoop(cs, pts, a, positive_ph, np_scalars, k + 1,
                       [d EXCEPT ![i] = (con :> r.row) @@ @])

\* Work item k: constituent con at point i.
LeProvostItem(cs, pts, a, positive_ph, np_scalars, k, d, con, i) ==
    LeProvostStore(cs, pts, a, positive_ph, np_scalars, k, d, con, i,
                   LeProvostPoint(con, pts[i], a, positive_ph, np_scalars))

LeProvostLoop(cs, pts, a, positive_ph, np_scalars, k, d) ==
    IF k > Len(cs) * Len(pts) THEN [data |-> d, exc |-> "none"]
    ELSE LeProvostItem(cs, pts, a, positive_ph, np_scalars, k, d,
                       cs[((k - 1) \div Len(pts)) + 1], ((k - 1) % Len(pts)) + 1)

\* The names of the set S in sorted() order.
Sorted(S) == SelectSeq(SortedNames, LAMBDA n : n \in S)

\* pd.DataFrame(columns=[...]): a table with no rows.
EmptyTable == <<>>

\* Line 83 without the intersection with the dataset's names.
LoopNamesAll(m, cons) == Sorted(LeProvostCons(m, cons))

\* Line 83: the constituents looped over.
LoopNames(m, cons) == Sorted(LeProvostCons(m, cons) \cap available_constituents(m))

\* Line 180, or the exception that ended the loops r.
LeProvostFinish(r, pts) ==
    [data |-> r.data, locs |-> pts,
     outcome |-> IF r.exc = "none" THEN "return:180" ELSE r.exc]

\* Lines 63-180 with self.data emptied before the check of line 63.
LeProvostValidatedReset(m, a, old_data, cons, positive_ph, np_scalars, cc) ==
    IF cc.none \/ cc.coords = <<>>
    THEN [data |-> <<>>, locs |-> cc.coords, outcome |-> "return:64"]
    ELSE LeProvostFinish(LeProvostLoop(LoopNames(m, cons), cc.coords, a, positive_ph,
                                       np_scalars, 1,
                                       [i \in 1..Len(cc.coords) |-> EmptyTable]),
                         cc.coords)

\* Lines 63-180, cc being what convert_coords made of the caller's list.
LeProvostValidated(m, a, old_data, cons, positive_ph, np_scalars, cc) ==
    IF cc.none \/ cc.coords = <<>>
    THEN [data |-> old_data, locs |-> cc.coords, outcome |-> "return:64"]
    ELSE LeProvostFinish(LeProvostLoop(LoopNames(m, cons), cc.coords, a, positive_ph,
                                       np_scalars, 1,
                                       [i \in 1..Len(cc.coords) |-> EmptyTable]),
                         cc.coords)

\* The whole of get_components (lines 55-180): what self.data and the
\* caller's list hold afterwards and how the call ended.
LeProvostCall(m, a, old_data, ls, cons, positive_ph, np_scalars) ==
    LeProvostValidated(m, a, old_data, cons, positive_ph, np_scalars,
                       convert_coords(ls, m = "fes2014"))

(***************************************************************************)
(* tpxo_database.py: TpxoDB.get_components.                                *)
(***************************************************************************)
\* bisect(arr, x): the number of entries of the ascending array that are <= x.
Bisect(arr, x) == Cardinality({k \in 1..Len(arr) : arr[k] <= x})

\* np.angle(complex(re, im), deg=True).  neg_zero tells the sign of a zero
\* imaginary part, which decides between 180 and -180 on the negative real axis.
AngleDeg(re, im, neg_zero) ==
    IF re = 0 /\ im = 0 THEN 0
    ELSE IF im > 0 THEN AcosDeg(re, im)
    ELSE IF im < 0 THEN -AcosDeg(re, im)
    ELSE IF re > 0 THEN 0
    ELSE IF neg_zero THEN -180 ELSE 180

\* Lines 46-47 and 57: the names looped over (no case folding).
TpxoCons(m, cons) ==
    IF cons = None \/ cons = <<>> THEN available_constituents(m)
    ELSE {cons[k] : k \in 1..Len(cons)}

\* Lines 88-97: the row for the weighted tide re + i*im, the weights adding up
\* to sum.
TpxoRow(c, re, im, sum, positive_ph, neg_zero) ==
    [exc |-> "none",
     row |-> [amplitude |-> SquaredModulus(Frac(UnitsMultiplier * re, sum),
                                           Frac(UnitsMultiplier * im, sum)),
              phase |-> <<ShiftPhase(AngleDeg(re, im, neg_zero), positive_ph)>>,
              speed |-> NOAA_SPEEDS[c]]]

\* Lines 82-97: the weighted sums of the values res and ims read at the four
\* cells; a NaN among them makes amplitude and phase NaN.
TpxoSums(c, res, ims, w, positive_ph, neg_zero) ==
    IF c \notin DOMAIN NOAA_SPEEDS THEN [exc |-> "KeyError"]
    ELSE IF \E k \in 1..4 : res[k] = NaN \/ ims[k] = NaN
    THEN [exc |-> "none",
          row |-> [amplitude |-> NaN, phase |-> NaN, speed |-> NOAA_SPEEDS[c]]]
    ELSE TpxoRow(c, SumOver([k \in 1..4 |-> res[k][1] * w[k]], 1..4),
                 -SumOver([k \in 1..4 |-> ims[k][1] * w[k]], 1..4),
                 w[1] + w[2] + w[3] + w[4], positive_ph, neg_zero)

\* Lines 84-86: the values of the slice, cell by cell.
TpxoRead(c, cells, w, positive_ph, neg_zero) ==
    TpxoSums(c, [k \in 1..4 |-> hRe(c, cells[k][1], cells[k][2])],
             [k \in 1..4 |-> hIm(c, cells[k][1], cells[k][2])], w, positive_ph, neg_zero)

\* Lines 71-82: the weights of the cells (left, bottom), (left, top),
\* (right, bottom), (right, top), as numerators over the area of the cell;
\* top and right are the zero-based indices of lines 66-67.
TpxoWeights(lat, lon, a, top, right) ==
    LET wx1 == lon - a.lon_z[right]
        wy1 == lat - a.lat_z[top]
    IN  <<(a.lon_z[right + 1] - lon) * (a.lat_z[top + 1] - lat),
          (a.lon_z[right + 1] - lon) * wy1,
          wx1 * (a.lat_z[top + 1] - lat),
          wx1 * wy1>>

\* Lines 68-97 for the indices of lines 66-67.  An index equal to the length
\* of its array is out of range (lines 71-74); index -1 reads the last entry
\* and makes the slices of line 84 empty, which the product of line 86 rejects.
TpxoBracket(c, lat, lon, a, top, right, positive_ph, neg_zero) ==
    IF right >= Len(a.lon_z) \/ top >= Len(a.lat_z) THEN [exc |-> "IndexError"]
    ELSE IF right - 1 < 0 \/ top - 1 < 0 THEN [exc |-> "ValueError"]
    ELSE TpxoRead(c, <<<<right - 1, top - 1>>, <<right - 1, top>>,
                       <<right, top - 1>>, <<right, top>>>>,
                  TpxoWeights(lat, lon, a, top, right), positive_ph, neg_zero)

\* Lines 64-97, for the latitude and the longitude of lines 59-62.
TpxoAt(c, lat, lon, a, positive_ph, neg_zero) ==
    TpxoBracket(c, lat, lon, a, Bisect(a.lat_z, lat), Bisect(a.lon_z, lon),
                positive_ph, neg_zero)

\* Lines 59-97: one pass of the inner loop, for constituent c and point loc.
TpxoPoint(c, loc, a, positive_ph, neg_zero) ==
    TpxoAt(c, loc[1], IF loc[2] < 0 THEN loc[2] + 360 ELSE loc[2], a,
           positive_ph, neg_zero)

\* Lines 57-97: the two nested loops from work item k on, the constituents in
\* the order cs in which the set of line 57 is iterated.
RECURSIVE TpxoLoop(_, _, _, _, _, _, _)
\* Lines 90-97: the pass r of item k stored as row c of table i.
TpxoStore(cs, pts, a, positive_ph, neg_zero, k, d, c, i, r) ==
    IF r.exc # "none" THEN [data |-> d, exc |-> r.exc]
    ELSE TpxoLoop(cs, pts, a, positive_ph, neg_zero, k + 1,
                  [d EXCEPT ![i] = (c :> r.row) @@ @])

\* Work item k: constituent c at point i.
TpxoItem(cs, pts, a, positive_ph, neg_zero, k, d, c, i) ==
    TpxoStore(cs, pts, a, positive_ph, neg_zero, k, d, c, i,
              TpxoPoint(c, pts[i], a, positive_ph, neg_zero))

TpxoLoop(cs, pts, a, positive_ph, neg_zero, k, d) ==
    IF k > Len(cs) * Len(pts) THEN [data |-> d, exc |-> "none"]
    ELSE TpxoItem(cs, pts, a, positive_ph, neg_zero, k, d,
                  cs[((k - 1) \div Len(pts)) + 1], ((k - 1) % Len(pts)) + 1)

\* The orders in which a set of names can be iterated.
Orders(S) == {o \in [1..Cardinality(S) -> S] : \A n \in S : \E k \in DOMAIN o : o[k] = n}

\* Line 99, or the exception that ended the loops r.
TpxoFinish(r, pts) ==
    [data |-> r.data, locs |-> pts,
     outcome |-> IF r.exc = "none" THEN "return:99" ELSE r.exc]

\* The whole of get_components (lines 43-99), the set of line 57 iterated in
\* the order cs.
TpxoCall(a, ls, cs, positive_ph, neg_zero) ==
    TpxoFinish(TpxoLoop(cs, ls, a, positive_ph, neg_zero, 1,
                        [i \in 1..Len(ls) |-> EmptyTable]),
               ls)

(***************************************************************************)
(* tidal_database.py: the orbit engine (set_orbit), the node factors       *)
(* (nfacs), the equilibrium arguments (gterms) and get_nodal_factor.       *)
(*                                                                         *)
(* Numbers.  An angle is an integer number of thousandths of a degree and  *)
(* a node factor an integer number of ten-thousandths; the coefficients of *)
(* the source are rounded to those units.  The moon's node dn is followed  *)
(* exactly, and what set_orbit and nfacs derive from it with acos, asin,   *)
(* atan and tan is evaluated at the midpoint of the 45-degree sector dn    *)
(* lies in; likewise the terms q and r of gterms, at the midpoint of the   *)
(* sector of dpc.  A timestamp is a record of the fields of datetime:      *)
(* year, yday (timetuple().tm_yday), hour, minute, second, microsecond.    *)
(***************************************************************************)
\* 360.0, in thousandths of a degree.
Turn == 360000

\* Lines 237-246.
angle(a_number) == a_number % Turn

\* Lines 262-264: dyr, and dday with the leap days x since 1901.
Dyr(ts) == ts.year - 1900

Dday(ts) == ts.yday + IntTrunc(ts.year - 1901, 4) - 1

\* Lines 266, 270, 280, 283, 286: c0 + c1*dyr + c2*dday + c3*hour.
Linear(c0, c1, c2, c3, ts) == c0 + c1 * Dyr(ts) + c2 * Dday(ts) + c3 * ts.hour

\* The 45-degree sector an angle of [0, 360) lies in, from 1.
Sector(d) == (d \div 45000) + 1

\* Lines 272-277 and 288-291 at dn = 22.5, 67.5, ..., 337.5 degrees: di is
\* wrapped by angle, dnu, dxi, dnup and dnup2 are the degrees of the asin and
\* atan values as they come.
OrbitTable ==
    <<[di |-> 28271, dnu |-> 4156, dxi |-> 3741, dnup |-> 2966, dnup2 |-> 3141],
      [di |-> 25837, dnu |-> 10962, dxi |-> 9965, dnup |-> 7689, dnup2 |-> 7955],
      [di |-> 21974, dnu |-> 12796, dxi |-> 11804, dnup |-> 8641, dnup2 |-> 8457],
      [di |-> 18796, dnu |-> 6116, dxi |-> 5707, dnup |-> 3950, dnup2 |-> 3601],
      [di |-> 18796, dnu |-> -6116, dxi |-> 354293, dnup |-> -3950, dnup2 |-> -3601],
      [di |-> 21974, dnu |-> -12796, dxi |-> 348196, dnup |-> -8641, dnup2 |-> -8457],
      [di |-> 25837, dnu |-> -10962, dxi |-> 350035, dnup |-> -7689, dnup2 |-> -7955],
      [di |-> 28271, dnu |-> -4156, dxi |-> 356259, dnup |-> -2966, dnup2 |-> -3141]>>

\* Lines 293-305: the dictionary set_orbit builds, for the dn and dp of lines
\* 266-271 and the row of OrbitTable dn selects.
AstroOf(ts, dn, dp, row) ==
    [ds |-> angle(Linear(277026, 129385, 13176, 549, ts)),
     dp |-> dp,
     dh |-> angle(Linear(280190, -239, 986, 41, ts)),
     dp1 |-> angle(Linear(281221, 17, 0, 0, ts)),
     dn |-> dn,
     di |-> row.di,
     dnu |-> row.dnu,
     dxi |-> row.dxi,
     dnup |-> row.dnup,
     dnup2 |-> row.dnup2,
     dpc |-> angle(dp - row.dxi)]

AstroNode(ts, dn) ==
    AstroOf(ts, dn, angle(Linear(334384, 40662, 111, 5, ts)), OrbitTable[Sector(dn)])

\* Lines 260-305: the orbit state of timestamp ts.
AstroAt(ts) == AstroNode(ts, angle(Linear(259156, -19328, -53, -2, ts)))

\* Lines 248-305 on the scratch state o: self.orbit.astro is replaced.  The
\* field calls lists the invocations of set_orbit: the timestamp of each and
\* the dictionary it replaced.
set_orbit(o, ts) ==
    [o EXCEPT !.astro = AstroAt(ts),
              !.calls = Append(@, [timestamp |-> ts, replaced |-> o.astro])]

\* Lines 324-344 at the (di, dnu) of the rows of OrbitTable.
FactorTable ==
    <<[eq73 |-> 8810, eq74 |-> 14217, eq75 |-> 11725, eq76 |-> 11565, eq77 |-> 17225,
       eq78 |-> 9660, eq149 |-> 9495, eq227 |-> 11063, eq235 |-> 12939],
      [eq73 |-> 9495, eq74 |-> 12036, eq75 |-> 10899, eq76 |-> 10875, eq77 |-> 13282,
       eq78 |-> 9859, eq149 |-> 9790, eq227 |-> 10557, eq235 |-> 11294],
      [eq73 |-> 10489, eq74 |-> 8873, eq75 |-> 9492, eq76 |-> 9620, eq77 |-> 8288,
       eq78 |-> 10145, eq149 |-> 10219, eq227 |-> 9688, eq235 |-> 9072],
      [eq73 |-> 11210, eq74 |-> 6579, eq75 |-> 8255, eq76 |-> 8456, eq77 |-> 5239,
       eq78 |-> 10349, eq149 |-> 10529, eq227 |-> 8934, eq235 |-> 7655]>>

\* The row of FactorTable for the inclination di: the factors depend on dnu
\* through cos(nu) and cos(2 nu), which do not tell its sign.
DiRow(di) == CHOOSE k \in 1..4 : OrbitTable[k].di = di

\* Lines 319-344: the equations of Schureman for the i and nu of astro.
Equations(astro) == FactorTable[DiRow(astro.di)]

\* The product of two factors.
Mul(a, b) == (a * b + 5000) \div 10000

\* 1.0 as a factor.
One == 10000

\* Lines 346-386 with the value of equation 207 for M1 and of equation 215
\* for L2 (taken as eq75 and eq78).
NodeFactorsUnpinned(f, m2, k1) ==
    [M2 |-> m2, S2 |-> One, N2 |-> f.eq78, K1 |-> k1, M4 |-> Mul(m2, m2),
     O1 |-> f.eq75, M6 |-> Mul(Mul(m2, m2), m2), MK3 |-> Mul(m2, k1), S4 |-> One,
     MN4 |-> Mul(m2, m2), NU2 |-> f.eq78, S6 |-> One, MU2 |-> f.eq78, 2N2 |-> f.eq78,
     OO1 |-> f.eq77, LAM2 |-> f.eq78, S1 |-> One, M1 |-> f.eq75, J1 |-> f.eq76,
     MM |-> f.eq73, SSA |-> One, SA |-> One, MSF |-> f.eq78, MF |-> f.eq74,
     RHO |-> f.eq75, Q1 |-> f.eq75, T2 |-> One, R2 |-> One, 2Q1 |-> f.eq75,
     P1 |-> One, 2SM2 |-> f.eq78, M3 |-> f.eq149, L2 |-> f.eq78,
     2MK3 |-> Mul(Mul(m2, m2), k1), K2 |-> f.eq235,
     M8 |-> Mul(Mul(Mul(m2, m2), m2), m2), MS4 |-> f.eq78]

\* Lines 346-386 for the nodal factor m2 of line 346 and k1 of line 349.
NodeFactors(f, m2, k1) ==
    [M2 |-> m2, S2 |-> One, N2 |-> f.eq78, K1 |-> k1, M4 |-> Mul(m2, m2),
     O1 |-> f.eq75, M6 |-> Mul(Mul(m2, m2), m2), MK3 |-> Mul(m2, k1), S4 |-> One,
     MN4 |-> Mul(m2, m2), NU2 |-> f.eq78, S6 |-> One, MU2 |-> f.eq78, 2N2 |-> f.eq78,
     OO1 |-> f.eq77, LAM2 |-> f.eq78, S1 |-> One, M1 |-> 0, J1 |-> f.eq76,
     MM |-> f.eq73, SSA |-> One, SA |-> One, MSF |-> f.eq78, MF |-> f.eq74,
     RHO |-> f.eq75, Q1 |-> f.eq75, T2 |-> One, R2 |-> One, 2Q1 |-> f.eq75,
     P1 |-> One, 2SM2 |-> f.eq78, M3 |-> f.eq149, L2 |-> 0,
     2MK3 |-> Mul(Mul(m2, m2), k1), K2 |-> f.eq235,
     M8 |-> Mul(Mul(Mul(m2, m2), m2), m2), MS4 |-> f.eq78]

\* Lines 346-386 writing the node factors only while the scratch state holds
\* none.
nfacs_eqs_once(o, f) ==
    IF o.nodfac.M2 # 0 THEN o
    ELSE [o EXCEPT !.nodfac = NodeFactors(f, f.eq78, f.eq227)]

\* Lines 346-386 with the composite factors computed from the M2 and K1 the
\* scratch state held before lines 346 and 349 wrote the new ones.
nfacs_eqs_stale(o, f) ==
    [o EXCEPT !.nodfac = [NodeFactors(f, o.nodfac.M2, o.nodfac.K1)
                              EXCEPT !.M2 = f.eq78, !.K1 = f.eq227]]

\* Lines 319-386 on the state set_orbit left.
nfacs_eqs(o, f) == [o EXCEPT !.nodfac = NodeFactors(f, f.eq78, f.eq227)]

nfacs_from(o) == nfacs_eqs(o, Equations(o.astro))

\* Lines 307-386.
nfacs(o, timestamp) == nfacs_from(set_orbit(o, timestamp))

\* Lines 433-435 and 451-452 at dpc = 22.5, 67.5, ..., 337.5 degrees, one row
\* for each di of FactorTable: q is wrapped by angle, r is not.
QTable ==
    <<<<11131, 48912, 131088, 168869, 191131, 228912, 311088, 348869>>,
      <<11233, 49176, 130824, 168767, 191233, 229176, 310824, 348767>>,
      <<11370, 49528, 130472, 168630, 191370, 229528, 310472, 348630>>,
      <<11462, 49763, 130237, 168538, 191462, 229763, 310237, 348538>>>>

RTable ==
    <<<<20211, 11971, -11971, -20211, 20211, 11971, -11971, -20211>>,
      <<16032, 10341, -10341, -16032, 16032, 10341, -10341, -16032>>,
      <<10778, 7850, -7850, -10778, 10778, 7850, -7850, -10778>>,
      <<7492, 5944, -5944, -7492, 7492, 5944, -5944, -7492>>>>

\* Lines 414-457: the sums, before line 459 wraps them.
Terms(s, p, h, p1, t, nu, xi, nup, nup2, q, r) ==
    [M2 |-> 2 * (t - s + h) + 2 * (xi - nu),
     S2 |-> 2 * t,
     N2 |-> 2 * (t + h) - 3 * s + p + 2 * (xi - nu),
     K1 |-> t + h - 90000 - nup,
     M4 |-> 4 * (t - s + h) + 4 * (xi - nu),
     O1 |-> t - 2 * s + h + 90000 + 2 * xi - nu,
     M6 |-> 6 * (t - s + h) + 6 * (xi - nu),
     MK3 |-> 3 * (t + h) - 2 * s - 90000 + 2 * (xi - nu) - nup,
     S4 |-> 4 * t,
     MN4 |-> 4 * (t + h) - 5 * s + p + 4 * (xi - nu),
     NU2 |-> 2 * t - 3 * s + 4 * h - p + 2 * (xi - nu),
     S6 |-> 6 * t,
     MU2 |-> 2 * (t + 2 * (h - s)) + 2 * (xi - nu),
     2N2 |-> 2 * (t - 2 * s + h + p) + 2 * (xi - nu),
     OO1 |-> t + 2 * s + h - 90000 - 2 * xi - nu,
     LAM2 |-> 2 * t - s + p + 180000 + 2 * (xi - nu),
     S1 |-> t,
     M1 |-> t - s + h - 90000 + xi - nu + q,
     J1 |-> t + s + h - p - 90000 - nu,
     MM |-> s - p,
     SSA |-> 2 * h,
     SA |-> h,
     MSF |-> 2 * (s - h),
     MF |-> 2 * s - 2 * xi,
     RHO |-> t + 3 * (h - s) - p + 90000 + 2 * xi - nu,
     Q1 |-> t - 3 * s + h + p + 90000 + 2 * xi - nu,
     T2 |-> 2 * t - h + p1,
     R2 |-> 2 * t + h - p1 + 180000,
     2Q1 |-> t - 4 * s + h + 2 * p + 90000 + 2 * xi - nu,
     P1 |-> t - h + 90000,
     2SM2 |-> 2 * (t + s - h) + 2 * (nu - xi),
     M3 |-> 3 * (t - s + h) + 3 * (xi - nu),
     L2 |-> 2 * (t + h) - s - p + 180000 + 2 * (xi - nu) - r,
     2MK3 |-> 3 * (t + h) - 4 * s + 90000 + 4 * (xi - nu) + nup,
     K2 |-> 2 * (t + h) - 2 * nup2,
     M8 |-> 8 * (t - s + h) + 8 * (xi - nu),
     MS4 |-> 2 * (2 * t - s + h) + 2 * (xi - nu)]

\* Lines 458-459.
Wrapped(g) == [con \in DOMAIN g |-> angle(g[con])]

\* Lines 414-459: a1 holds the s, p, h and p1 read at lines 400-403, a2 is
\* self.orbit.astro as lines 408-411 and 431-432 read it.
Summed(a1, a2, t) ==
    Wrapped(Terms(a1.ds, a1.dp, a1.dh, a1.dp1, t, a2.dnu, a2.dxi, a2.dnup, a2.dnup2,
                  QTable[DiRow(a2.di)][Sector(a2.dpc)],
                  RTable[DiRow(a2.di)][Sector(a2.dpc)]))

\* Lines 408-459 reading every term from self.orbit.astro, the locals of
\* lines 400-403 being dropped.
gterms_sum_shared(a1, o2, t) == [o2 EXCEPT !.grterm = Summed(o2.astro, o2.astro, t)]

\* Lines 408-459 on the state o2 the second set_orbit left.
gterms_sum(a1, o2, t) == [o2 EXCEPT !.grterm = Summed(a1, o2.astro, t)]

\* Lines 400-459 with the hour angle t of line 404 following the minutes
\* of the timestamp too.
gterms_middle_minutes(o1, timestamp, timestamp_middle) ==
    gterms_sum(o1.astro, set_orbit(o1, timestamp_middle),
               angle(180000 + timestamp.hour * 15000 + timestamp.minute * 250))

\* Lines 400-459 on the state o1 the first set_orbit left.
gterms_middle(o1, timestamp, timestamp_middle) ==
    gterms_sum(o1.astro, set_orbit(o1, timestamp_middle),
               angle(180000 + timestamp.hour * 15000))

\* Lines 388-459.
gterms(o, timestamp, timestamp_middle) ==
    gterms_middle(set_orbit(o, timestamp), timestamp, timestamp_middle)

\* Lines 226-234.
get_eq_args(o, timestamp, timestamp_middle) ==
    gterms(nfacs(o, timestamp_middle), timestamp, timestamp_middle)

\* Line 214.
NaNRow ==
    [amplitude |-> NaN, frequency |-> NaN, speed |-> NaN,
     earth_tide_reduction_factor |-> NaN, equilibrium_argument |-> NaN,
     nodal_factor |-> NaN]

\* Lines 216-223 without the test of line 218: the equilibrium term is
\* reported whatever the nodal factor.
KnownRowAnyFactor(name, nodal_factor, grterm) ==
    [amplitude |-> <<NOAA_SPEEDS[name][2]>>,
     frequency |-> <<NOAA_SPEEDS[name][3]>>,
     speed |-> <<NOAA_SPEEDS[name][1]>>,
     earth_tide_reduction_factor |-> <<NOAA_SPEEDS[name][4]>>,
     equilibrium_argument |-> <<grterm>>,
     nodal_factor |-> <<nodal_factor>>]

\* Lines 216-223 for a name of the reference table.
KnownRow(name, nodal_factor, grterm) ==
    [amplitude |-> <<NOAA_SPEEDS[name][2]>>,
     frequency |-> <<NOAA_SPEEDS[name][3]>>,
     speed |-> <<NOAA_SPEEDS[name][1]>>,
     earth_tide_reduction_factor |-> <<NOAA_SPEEDS[name][4]>>,
     equilibrium_argument |-> <<IF nodal_factor # 0 THEN grterm ELSE 0>>,
     nodal_factor |-> <<nodal_factor>>]

\* Lines 213-223: the row of the upper-cased name.
Row(name, o) ==
    IF name \notin DOMAIN NOAA_SPEEDS THEN NaNRow
    ELSE KnownRow(name, o.nodfac[name], o.grterm[name])

\* Lines 208-224 with rows for the names of the reference table only.
RowsOfKnown(names, o) ==
    [name \in {Upper(names[k]) : k \in DOMAIN names} \cap DOMAIN NOAA_SPEEDS |-> Row(name, o)]

\* Lines 208-224 on the state get_eq_args left: the table, a row per name.
Rows(names, o) ==
    [name \in {Upper(names[k]) : k \in DOMAIN names} |-> Row(name, o)]

get_nodal_factor_rows(names, o) == [orbit |-> o, con_data |-> Rows(names, o)]

\* Lines 195-224: the state self.orbit is left in and the table returned.
get_nodal_factor(o, names, timestamp, timestamp_middle) ==
    get_nodal_factor_rows(names, get_eq_args(o, timestamp, timestamp_middle))

\* OrbitVariables.__init__ (lines 127-131).
OrbitVariables ==
    [astro |-> <<>>,
     grterm |-> [con \in DOMAIN NOAA_SPEEDS |-> 0],
     nodfac |-> [con \in DOMAIN NOAA_SPEEDS |-> 0]]

(***************************************************************************)
(* The callers' inputs.                                                    *)
(***************************************************************************)
\* Points (lat, lon) a caller asks about.
LocPoints ==
    {<<-45, -135>>, <<-45, 45>>, <<45, 135>>, <<90, 0>>, <<0, 180>>, <<95, 0>>, <<0, 600>>}

RECURSIVE SeqsUpTo(_, _)
SeqsUpTo(S, n) ==
    IF n = 0 THEN {<<>>}
    ELSE LET shorter == SeqsUpTo(S, n - 1)
         IN  shorter \cup {Append(q, e) : q \in {q \in shorter : Len(q) = n - 1}, e \in S}

\* The batches of at most n points.
LocBatches(n) == SeqsUpTo(LocPoints, n)

\* The cons argument of a request.
ConsInputs == {None, <<>>, <<"m2">>, <<"M2">>, <<"K1", "S2">>}

\* The cells around the probe points (-45, -135) and (-45, 45).
Block == {<<0, 0>>, <<1, 0>>, <<0, 1>>, <<1, 1>>}

\* The NaN patterns <<nan_amp, nan_phase>> of the files explored by Spec.
NanPatterns == {<<{}, {}>>, <<{<<0, 0>>}, {<<1, 1>>}>>}

\* Coordinates handed to convert_coords: the longitudes and latitudes around
\* every bound the code compares with.
CoordLons == {-541, -540, -361, -360, -181, -180, -1, 0, 180, 181, 360, 361, 540, 541}

CoordLats == {-91, -90, 90, 91}

CoordPoints == {<<0, l>> : l \in CoordLons} \cup {<<t, 0>> : t \in CoordLats}

CoordBatches == SeqsUpTo(CoordPoints, MaxCoords)

\* Timestamps a caller asks about, with the fields of datetime the
\* calculator could read (yday is timetuple().tm_yday): 1899-03-01 06:00,
\* 1980-07-20 05:00, 2015-04-07 00:00, 2015-04-07 00:30:15.5 and 2100-12-30
\* 20:00.
Stamps ==
    {[year |-> 1899, yday |-> 60, hour |-> 6, minute |-> 0, second |-> 0,
      microsecond |-> 0],
     [year |-> 1980, yday |-> 202, hour |-> 5, minute |-> 0, second |-> 0,
      microsecond |-> 0],
     [year |-> 2015, yday |-> 97, hour |-> 0, minute |-> 0, second |-> 0,
      microsecond |-> 0],
     [year |-> 2015, yday |-> 97, hour |-> 0, minute |-> 30, second |-> 15,
      microsecond |-> 500000],
     [year |-> 2100, yday |-> 364, hour |-> 20, minute |-> 0, second |-> 0,
      microsecond |-> 0]}

\* Constituent names a caller asks nodal factors for; LA2 is no name of the
\* reference table.
NameInputs ==
    {<<>>, <<"M2">>, <<"m2", "K1">>, <<"M1", "L2", "K2">>, <<"K1", "la2", "LA2">>}

(***************************************************************************)
(* The state machine: one extractor, constructed for a model, on which     *)
(* get_components is called up to MaxCalls times with MaxPoints points in  *)
(* all.                                                                    *)
(***************************************************************************)
\* No caller has handed a list to convert_coords on its own.
CoordsIdle ==
    /\ zero_to_360 = FALSE
    /\ coords = <<>>
    /\ ret = "unset"
    /\ prev = <<>>

\* self.orbit as the constructor leaves it (line 153); no nodal factor has
\* been asked for.
NodalIdle ==
    /\ orbit = OrbitVariables
    /\ con_data = <<>>
    /\ nodal_req = [names |-> <<>>, timestamp |-> None, timestamp_middle |-> None]
    /\ orbit_calls = <<>>
    /\ orbit_before = OrbitVariables

\* TidalDB.__init__ (tidal_database.py, lines 147-160) for model m.
Constructed(m) ==
    /\ model = m
    /\ atts = IF m \in TPXO_MODELS THEN TpxoAtts ELSE RegularAtts(m)
    /\ data = <<>>
    /\ locs = <<>>
    /\ req = [locs |-> <<>>, cons |-> None, positive_ph |-> FALSE]
    /\ outcome = "none"

Init ==
    /\ \E m \in LEPROVOST_MODELS \cup TPXO_MODELS : Constructed(m)
    /\ \E np \in NanPatterns : nan_amp = np[1] /\ nan_phase = np[2]
    /\ calls_left = MaxCalls
    /\ points_left = MaxPoints
    /\ CoordsIdle
    /\ NodalIdle

\* get_components of LeProvostDB.  The grid values are Python floats or NumPy
\* scalars (np_scalars), which shows only where a float is divided by zero.
LeProvostGetComponents ==
    /\ model \in LEPROVOST_MODELS
    /\ calls_left > 0
    /\ \E ls \in LocBatches(points_left), cons \in ConsInputs, positive_ph \in BOOLEAN,
          np_scalars \in BOOLEAN :
          \E r \in {LeProvostCall(model, atts, data, ls, cons, positive_ph, np_scalars)} :
              /\ data' = r.data
              /\ locs' = r.locs
              /\ outcome' = r.outcome
              /\ req' = [locs |-> ls, cons |-> cons, positive_ph |-> positive_ph]
              /\ points_left' = points_left - Len(ls)
    /\ calls_left' = calls_left - 1
    /\ UNCHANGED <<model, atts, nan_amp, nan_phase, zero_to_360, coords, ret, prev>>
    /\ UNCHANGED nodal_vars

\* get_components of TpxoDB.  The set of line 57 is iterated in some order cs,
\* which shows only in the rows an exception leaves behind.
TpxoGetComponents ==
    /\ model \in TPXO_MODELS
    /\ calls_left > 0
    /\ \E ls \in LocBatches(points_left), cons \in ConsInputs, positive_ph \in BOOLEAN,
          neg_zero \in BOOLEAN :
          \E cs \in Orders(TpxoCons(model, cons) \cap available_constituents(model)) :
              \E r \in {TpxoCall(atts, ls, cs, positive_ph, neg_zero)} :
                  /\ data' = r.data
                  /\ locs' = r.locs
                  /\ outcome' = r.outcome
                  /\ req' = [locs |-> ls, cons |-> cons, positive_ph |-> positive_ph]
                  /\ points_left' = points_left - Len(ls)
    /\ calls_left' = calls_left - 1
    /\ UNCHANGED <<model, atts, nan_amp, nan_phase, zero_to_360, coords, ret, prev>>
    /\ UNCHANGED nodal_vars

Next == LeProvostGetComponents \/ TpxoGetComponents

Spec == Init /\ [][Next]_vars

(***************************************************************************)
(* SpecCorners: a regular-grid extractor over files with every pattern of  *)
(* NaN amplitudes and phases on the cells of Block.                        *)
(***************************************************************************)
InitCorners ==
    /\ \E m \in LEPROVOST_MODELS : Constructed(m)
    /\ nan_amp \in SUBSET Block
    /\ nan_phase \in SUBSET Block
    /\ calls_left = 1
    /\ points_left = MaxProbes
    /\ CoordsIdle
    /\ NodalIdle

NextCorners == LeProvostGetComponents

SpecCorners == InitCorners /\ [][NextCorners]_vars

(***************************************************************************)
(* SpecCoords: a caller's list handed to convert_coords, and handed to it  *)
(* again, up to MaxApply times.                                            *)
(***************************************************************************)
InitCoords ==
    /\ model = "none"
    /\ atts = <<>>
    /\ nan_amp = {}
    /\ nan_phase = {}
    /\ data = <<>>
    /\ locs = <<>>
    /\ req = [locs |-> <<>>, cons |-> None, positive_ph |-> FALSE]
    /\ outcome = "none"
    /\ calls_left = MaxApply
    /\ points_left = 0
    /\ zero_to_360 = FALSE
    /\ coords \in CoordBatches
    /\ ret = "unset"
    /\ prev = <<>>
    /\ NodalIdle

\* convert_coords(coords, z): the list is rewritten in place; the call
\* returns that list, or None.
ConvertCoords ==
    /\ calls_left > 0
    /\ \E z \in BOOLEAN :
          LET cc == convert_coords(coords, z)
          IN  /\ zero_to_360' = z
              /\ prev' = coords
              /\ coords' = cc.coords
              /\ ret' = IF cc.none THEN "None" ELSE "list"
    /\ calls_left' = calls_left - 1
    /\ UNCHANGED <<model, atts, nan_amp, nan_phase, data, locs, req, outcome, points_left>>
    /\ UNCHANGED nodal_vars

NextCoords == ConvertCoords

SpecCoords == InitCoords /\ [][NextCoords]_vars

(***************************************************************************)
(* SpecGrid: a regular-grid extractor over datasets that declare other     *)
(* grid shapes, the latitude and longitude spacings being equal or not.    *)
(***************************************************************************)
\* The (num_lats, num_lons) a dataset declares.
GridLats == {3, 5}

GridLons == {2, 4, 8}

GridShapes(m) ==
    {[RegularAtts(m) EXCEPT !.num_lats = nl, !.num_lons = nlo] :
        nl \in GridLats, nlo \in GridLons}

InitGrid ==
    /\ model \in LEPROVOST_MODELS
    /\ atts \in GridShapes(model)
    /\ data = <<>>
    /\ locs = <<>>
    /\ req = [locs |-> <<>>, cons |-> None, positive_ph |-> FALSE]
    /\ outcome = "none"
    /\ \E np \in NanPatterns : nan_amp = np[1] /\ nan_phase = np[2]
    /\ calls_left = 1
    /\ points_left = MaxProbes
    /\ CoordsIdle
    /\ NodalIdle

NextGrid == LeProvostGetComponents

SpecGrid == InitGrid /\ [][NextGrid]_vars

(***************************************************************************)
(* SpecNodal: one extractor on which get_nodal_factor is called up to      *)
(* MaxRequests times.                                                      *)
(***************************************************************************)
InitNodal ==
    /\ \E m \in TPXO_MODELS : Constructed(m)
    /\ nan_amp = {} /\ nan_phase = {}
    /\ calls_left = MaxRequests
    /\ points_left = 0
    /\ CoordsIdle
    /\ NodalIdle

\* self.orbit at the start of a call, with the empty list of set_orbit
\* invocations of that call.
Scratch(o) == [astro |-> o.astro, grterm |-> o.grterm, nodfac |-> o.nodfac, calls |-> <<>>]

\* get_nodal_factor(names, timestamp, timestamp_middle).
GetNodalFactor ==
    /\ calls_left > 0
    /\ \E names \in NameInputs, timestamp \in Stamps, timestamp_middle \in Stamps :
          \E r \in {get_nodal_factor(Scratch(orbit), names, timestamp, timestamp_middle)} :
              /\ orbit' = [astro |-> r.orbit.astro, grterm |-> r.orbit.grterm,
                           nodfac |-> r.orbit.nodfac]
              /\ orbit_calls' = r.orbit.calls
              /\ orbit_before' = orbit
              /\ con_data' = r.con_data
              /\ nodal_req' = [names |-> names, timestamp |-> timestamp,
                               timestamp_middle |-> timestamp_middle]
    /\ calls_left' = calls_left - 1
    /\ UNCHANGED <<model, atts, nan_amp, nan_phase, data, locs, req, outcome,
                   points_left, zero_to_360, coords, ret, prev>>

NextNodal == GetNodalFactor

SpecNodal == InitNodal /\ [][NextNodal]_vars

(***************************************************************************)
(* Properties.                                                             *)
(***************************************************************************)
\* The convention a model's points are validated under.
Fes(m) == m = "fes2014"

\* A point the validator must refuse under convention z360.
InvalidPoint(pt, z360) ==
    LET lon == WrapLon(pt[2], z360)
    IN  \/ pt[1] < -90 \/ pt[1] > 90
        \/ z360 /\ (lon < 0 \/ lon > 360)
        \/ ~z360 /\ (lon < -180 \/ lon > 180)

\* A get_components call has been made.
Called == outcome # "none"

\* The last call ran both loops to the end.
Returned == outcome \in {"return:180", "return:99"}

\* The last call ended in an exception.
Raised == outcome \notin {"none", "return:64", "return:180", "return:99"}

NoCons == {None, <<>>}

\* C1: if any point of the batch passed to get_components is invalid under the
\* model's convention, the call fails with an error surfaced to the caller.
C1_InvalidBatchRaises ==
    (Called /\ \E k \in DOMAIN req.locs : InvalidPoint(req.locs[k], Fes(model)))
        => Raised

RequestedNames(m, cons) ==
    IF cons \in NoCons THEN available_constituents(m)
    ELSE IF m \in LEPROVOST_MODELS THEN {Upper(cons[k]) : k \in DOMAIN cons}
    ELSE {cons[k] : k \in DOMAIN cons}

CellOf(pt) == Cell(pt, atts)

CornersInGrid(pt) ==
    \A k \in 1..4 : InGrid(Corners(CellOf(pt))[k][1], Corners(CellOf(pt))[k][2], atts)

CornerAmp(con, pt, k) == GridAmp(con, Corners(CellOf(pt))[k][1], Corners(CellOf(pt))[k][2])

CornerPhase(con, pt, k) == GridPhase(con, Corners(CellOf(pt))[k][1], Corners(CellOf(pt))[k][2])

\* The four corners of pt are cells of the grid and none of them has both an
\* amplitude and a phase.
NoUsableCorner(con, pt) ==
    /\ CornersInGrid(pt)
    /\ \A k \in 1..4 : CornerAmp(con, pt, k) = NaN \/ CornerPhase(con, pt, k) = NaN

\* The last call was a regular-grid call that went past validation, so that
\* self.data and locs are those of its loops.
RegularLookup == Called /\ model \in LEPROVOST_MODELS /\ outcome # "return:64"

\* C3: in the regular-grid extraction, whenever none of the four corners of a
\* point has both a non-NaN amplitude and a non-NaN phase, no exception is
\* raised and the row of that constituent and point is a NaN row.
C3_NoUsableCornerGivesNaNRow ==
    RegularLookup =>
        \A i \in DOMAIN locs :
            \A con \in RequestedNames(model, req.cons) \cap available_constituents(model) :
                NoUsableCorner(con, locs[i]) =>
                    /\ outcome # "ZeroDivisionError"
                    /\ Returned => /\ data[i][con].amplitude = NaN
                                   /\ data[i][con].phase = NaN

\* Some bracketing index of pt, as the strategy of model m computes it, is
\* outside the grid.
OutsideGrid(m, pt) ==
    IF m \in LEPROVOST_MODELS THEN ~CornersInGrid(pt)
    ELSE LET lon == IF pt[2] < 0 THEN pt[2] + 360 ELSE pt[2]
             top == Bisect(atts.lat_z, pt[1])
             right == Bisect(atts.lon_z, lon)
         IN  \/ top > Len(atts.lat_z) - 1 \/ right > Len(atts.lon_z) - 1
             \/ top - 1 < 0 \/ right - 1 < 0

\* C4: when every point of the request passes validation, a point with a
\* bracketing index outside the grid raises no error and has NaN amplitude and
\* phase in each of its rows, under both strategies.
C4_OutOfGridGivesNaNRow ==
    (Called /\ req.locs # <<>>
            /\ \A k \in DOMAIN req.locs : ~InvalidPoint(req.locs[k], Fes(model))) =>
        \A i \in DOMAIN locs :
            OutsideGrid(model, locs[i]) =>
                /\ outcome \notin {"IndexError", "ValueError"}
                /\ \A con \in DOMAIN data[i] :
                       data[i][con].amplitude = NaN /\ data[i][con].phase = NaN

\* The point is flagged out of bounds (lines 101-102), or all four corners
\* have NaN amplitude and NaN phase.
AllCornersNaN(con, pt) ==
    \/ out_of_bounds(CellOf(pt), atts)
    \/ /\ CornersInGrid(pt)
       /\ \A k \in 1..4 : CornerAmp(con, pt, k) = NaN /\ CornerPhase(con, pt, k) = NaN

SkippedPoint(con, pt) ==
    \/ out_of_bounds(CellOf(pt), atts)
    \/ /\ CornersInGrid(pt)
       /\ \/ \A k \in 1..4 : CornerAmp(con, pt, k) = NaN
          \/ \A k \in 1..4 : CornerPhase(con, pt, k) = NaN

C6_PhaseInRange ==
    (Called /\ outcome # "return:64") =>
        \A i \in DOMAIN data : \A con \in DOMAIN data[i] :
            data[i][con].phase # NaN =>
                LET p == data[i][con].phase[1]
                IN  IF req.positive_ph THEN 0 <= p /\ p < 360
                    ELSE -180 <= p /\ p < 180

\* C7 as stated: a list convert_coords returns has every latitude in
\* [-90, 90] and every longitude in [-180, 180) under the signed convention,
\* in [0, 360) under the zero-to-360 convention.
C7_LongitudeHalfOpen ==
    ret = "list" =>
        \A k \in DOMAIN coords :
            /\ -90 <= coords[k][1] /\ coords[k][1] <= 90
            /\ IF zero_to_360 THEN 0 <= coords[k][2] /\ coords[k][2] < 360
               ELSE -180 <= coords[k][2] /\ coords[k][2] < 180

\* C7 amended: a list convert_coords returns has every latitude in [-90, 90]
\* and every longitude in the closed interval [-180, 180] under the signed
\* convention, [0, 360] under the zero-to-360 convention.
C7_LongitudeClosed ==
    ret = "list" =>
        \A k \in DOMAIN coords :
            /\ -90 <= coords[k][1] /\ coords[k][1] <= 90
            /\ IF zero_to_360 THEN 0 <= coords[k][2] /\ coords[k][2] <= 360
               ELSE -180 <= coords[k][2] /\ coords[k][2] <= 180

\* C7 witness: the signed convention accepted longitude -180 and returned 180,
\* the closed end of the interval.
C7_Witness ==
    /\ ret = "list" /\ ~zero_to_360
    /\ Len(coords) >= 1
    /\ prev[1] = <<0, -180>>
    /\ coords[1] = <<0, 180>>

\* C8: a list convert_coords returned, handed to it again under the same
\* convention, is accepted and comes back unchanged.
C8_Idempotent ==
    [][(ret = "list" /\ zero_to_360' = zero_to_360) => (ret' = "list" /\ coords' = coords)]_vars

\* C9: under every strategy the request goes through convert_coords, with the
\* zero-to-360 convention for fes2014 and the signed one otherwise, before any
\* grid lookup: a refused batch stops the call there, an accepted one is
\* looked up at its normalized points.
C9_ValidatedBeforeLookup ==
    Called =>
        LET cc == convert_coords(req.locs, Fes(model))
        IN  IF cc.none THEN outcome = "return:64"
            ELSE locs = cc.coords

\* C10: under both strategies a requested name is matched with the dataset's
\* names whatever its case, and a request without names extracts every
\* constituent the model has.
C10_NamesCaseInsensitive ==
    (Called /\ Returned) =>
        \A i \in DOMAIN data :
            IF req.cons \in NoCons THEN DOMAIN data[i] = available_constituents(model)
            ELSE \A k \in DOMAIN req.cons :
                     Upper(req.cons[k]) \in available_constituents(model)
                         => Upper(req.cons[k]) \in DOMAIN data[i]

\* C11: every row a call writes with a computed amplitude and phase holds in
\* its speed column the reference speed of its constituent, the first field of
\* the entry the reference table has for it, under both strategies.
C11_SpeedIsReferenceSpeed ==
    (Called /\ Returned) =>
        \A i \in DOMAIN data : \A con \in DOMAIN data[i] :
            (/\ con \in DOMAIN NOAA_SPEEDS
             /\ data[i][con].amplitude # NaN
             /\ data[i][con].phase # NaN) =>
                data[i][con].speed = <<NOAA_SPEEDS[con][1]>>

\* floor((lon - min_lon) / d_lon), the zero-based column of the cell a
\* longitude of the domain falls in.
LonColumn(pt) == (pt[2] - atts.min_lon) \div (360 \div atts.num_lons)

\* The cell of pt with column 0 as the right-hand neighbour.
SeamCell(pt) == [CellOf(pt) EXCEPT !.xhi = 0]

\* C12: a regular-grid point whose lower longitude index is the last column
\* is not classified as out of bounds, its cell has column 0 as the right-hand
\* neighbour, and each row the call returns for it is the one read there.
C12_SeamWrapsToColumnZero ==
    RegularLookup =>
        \A i \in DOMAIN locs :
            LonColumn(locs[i]) = atts.num_lons - 1 =>
                /\ ~out_of_bounds(CellOf(locs[i]), atts)
                /\ CellOf(locs[i]).xlo = atts.num_lons - 1
                /\ CellOf(locs[i]).xhi = 0
                /\ Returned =>
                       \A con \in DOMAIN data[i] : \E np_scalars \in BOOLEAN :
                           \E r \in {LeProvostAt(con, locs[i], atts, SeamCell(locs[i]),
                                                 Corners(SeamCell(locs[i])),
                                                 req.positive_ph, np_scalars)} :
                               r.exc = "none" /\ r.row = data[i][con]

\* C17: the cell of every point a regular-grid call looks up has as lower
\* index on each axis the floor of (coordinate - minimum) over that axis's own
\* spacing, its lower corner is not beyond the point, and the point lies less
\* than one spacing from it on each axis (xratio and yratio in [0, 1)).
C17_OwnAxisSpacing ==
    RegularLookup =>
        \A i \in DOMAIN locs :
            LET c == CellOf(locs[i])
            IN  /\ c.xlo = LonColumn(locs[i])
                /\ c.ylo = (locs[i][1] - (-90)) \div (180 \div (atts.num_lats - 1))
                /\ c.xlonlo <= locs[i][2] /\ locs[i][2] - c.xlonlo < c.d_lon
                /\ c.ylatlo <= locs[i][1] /\ locs[i][1] - c.ylatlo < c.d_lat

\* The sum of vals[k] * w[k] over the corners k of U, over the sum of their
\* weights: the mean of the usable corners, as a fraction.
UsableMean(vals, w, U) ==
    Frac(SumOver([k \in 1..4 |-> IF k \in U THEN vals[k] * w[k] ELSE 0], U), SumOver(w, U))

\* The squared modulus of the complex value interpolated from the usable
\* corners U alone, whose real parts are res and imaginary parts ims.
UsableModulus(res, ims, w, U) ==
    SquaredModulus(UsableMean(res, w, U), UsableMean(ims, w, U))

\* What C18 says of the regular-grid row of constituent con at point pt.
RegularRenormalised(con, pt, row) ==
    LET amps == CornerAmps(con, Corners(CellOf(pt)))
        phases == CornerPhases(con, Corners(CellOf(pt)))
        w == Weights(pt, CellOf(pt))
        U == Usable(amps, phases)
    IN  (U # {} /\ SumOver(w, U) # 0) =>
            LET m2 == UsableModulus(
                          [k \in 1..4 |-> IF k \in U THEN amps[k][1] * CosDeg(phases[k][1]) ELSE 0],
                          [k \in 1..4 |-> IF k \in U THEN amps[k][1] * SinDeg(phases[k][1]) ELSE 0],
                          w, U)
            IN  row.amplitude = Frac(m2[1], m2[2] * 10000)

\* The four cells line 84 of tpxo_database.py reads for the point pt.
TpxoCells(lat, lon) ==
    LET top == Bisect(atts.lat_z, lat)
        right == Bisect(atts.lon_z, lon)
    IN  <<<<right - 1, top - 1>>, <<right - 1, top>>, <<right, top - 1>>, <<right, top>>>>

\* What C18 says of the TPXO row of constituent con at latitude lat and
\* longitude lon (in [0, 360]).
TpxoRenormalised(con, lat, lon, row) ==
    LET cells == TpxoCells(lat, lon)
        res == [k \in 1..4 |-> hRe(con, cells[k][1], cells[k][2])]
        ims == [k \in 1..4 |-> hIm(con, cells[k][1], cells[k][2])]
        w == TpxoWeights(lat, lon, atts, Bisect(atts.lat_z, lat), Bisect(atts.lon_z, lon))
        U == {k \in 1..4 : res[k] # NaN /\ ims[k] # NaN}
    IN  (U # {} /\ SumOver(w, U) # 0) =>
            row.amplitude =
                UsableModulus([k \in 1..4 |-> IF k \in U THEN UnitsMultiplier * res[k][1] ELSE 0],
                              [k \in 1..4 |-> IF k \in U THEN -(UnitsMultiplier * ims[k][1]) ELSE 0],
                              w, U)

\* C18: under both strategies the amplitude of a returned row is the modulus
\* of the weighted sum of the usable corners of the point's cell over the sum
\* of the weights of those corners alone: a corner with NaN data adds nothing
\* and the weights of the others are renormalized.
C18_RenormalisedOverUsableCorners ==
    (Called /\ Returned) =>
        \A i \in DOMAIN data : \A con \in DOMAIN data[i] :
            IF model \in LEPROVOST_MODELS
            THEN (CornersInGrid(locs[i]) /\ ~out_of_bounds(CellOf(locs[i]), atts)) =>
                     RegularRenormalised(con, locs[i], data[i][con])
            ELSE TpxoRenormalised(con, locs[i][1],
                                  IF locs[i][2] < 0 THEN locs[i][2] + 360 ELSE locs[i][2],
                                  data[i][con])

\* A get_nodal_factor call has been made.
NodalCalled == orbit_calls # <<>>

\* The table a newly constructed extractor returns for the arguments of the
\* last call.
FreshTable ==
    get_nodal_factor(Scratch(OrbitVariables), nodal_req.names, nodal_req.timestamp,
                     nodal_req.timestamp_middle).con_data

\* C13: the table a get_nodal_factor call returns is the one a newly
\* constructed extractor returns for the same names and timestamps, whatever
\* the earlier calls left in the orbit, node-factor and equilibrium state.
C13_TableDependsOnArgumentsOnly == NodalCalled => con_data = FreshTable

\* C13 witness: a call found the node factors and another orbit state of an
\* earlier call in self.orbit and returned a row for M2.
C13_Witness ==
    /\ NodalCalled
    /\ orbit_before.nodfac.M2 # 0
    /\ orbit_before.astro # orbit.astro
    /\ orbit_before.nodfac # orbit.nodfac
    /\ orbit_before.grterm # orbit.grterm
    /\ "M2" \in DOMAIN con_data

\* The names of the last request that the reference table has, upper-cased.
KnownNames == SelectSeq(nodal_req.names, LAMBDA n : Upper(n) \in DOMAIN NOAA_SPEEDS)

\* The table a newly constructed extractor returns for those names alone.
KnownTable ==
    get_nodal_factor(Scratch(OrbitVariables), KnownNames, nodal_req.timestamp,
                     nodal_req.timestamp_middle).con_data

\* C14: the table of a get_nodal_factor call has a row for every requested
\* name, upper-cased; the row of a name the reference table lacks has NaN in
\* its six columns, and the row of a name it has is the row of a request for
\* the known names alone.
C14_UnknownNamesGiveNaNRows ==
    NodalCalled =>
        /\ DOMAIN con_data = {Upper(nodal_req.names[k]) : k \in DOMAIN nodal_req.names}
        /\ \A name \in DOMAIN con_data :
               IF name \in DOMAIN NOAA_SPEEDS
               THEN con_data[name] = KnownTable[name]
               ELSE /\ con_data[name].amplitude = NaN
                    /\ con_data[name].frequency = NaN
                    /\ con_data[name].speed = NaN
                    /\ con_data[name].earth_tide_reduction_factor = NaN
                    /\ con_data[name].equilibrium_argument = NaN
                    /\ con_data[name].nodal_factor = NaN

\* C14 witness: a request for K1 and, in lower case, for a name the reference
\* table lacks returned a NaN row for that name and a computed row for K1.
C14_Witness ==
    /\ NodalCalled
    /\ \E k \in DOMAIN nodal_req.names : nodal_req.names[k] = "la2"
    /\ "LA2" \in DOMAIN con_data /\ "LA2" \notin DOMAIN NOAA_SPEEDS
    /\ con_data["LA2"].nodal_factor = NaN
    /\ "K1" \in DOMAIN con_data
    /\ con_data["K1"].nodal_factor # NaN

\* C15: after any sequence of get_nodal_factor calls the node factor held
\* for M1 and for L2 is 0, and so is the nodal factor of every M1 and L2 row
\* of the table returned, whatever the two timestamps.
C15_M1AndL2PinnedToZero ==
    /\ orbit.nodfac.M1 = 0
    /\ orbit.nodfac.L2 = 0
    /\ NodalCalled =>
           \A name \in {"M1", "L2"} \cap DOMAIN con_data :
               con_data[name].nodal_factor = <<0>>

\* C15 witness: a second call on the extractor, with a start and a middle of
\* different years, returned rows for M1 and L2 while other node factors of
\* the same orbit state are not 0.
C15_Witness ==
    /\ NodalCalled
    /\ orbit_before.nodfac.M2 # 0
    /\ nodal_req.timestamp.year # nodal_req.timestamp_middle.year
    /\ {"M1", "L2"} \subseteq DOMAIN con_data
    /\ con_data["M1"].nodal_factor = <<0>>
    /\ con_data["L2"].nodal_factor = <<0>>
    /\ orbit.nodfac.O1 # 0 /\ orbit.nodfac.M2 # 0

\* C16: every angle of the orbit state set_orbit leaves (s, p, h, p1, n, i,
\* nu, xi, nup, nup2, pc) lies in [0, 360) degrees.
C16_OrbitAnglesWrapped ==
    NodalCalled =>
        \A a \in {orbit.astro.ds, orbit.astro.dp, orbit.astro.dh, orbit.astro.dp1,
                  orbit.astro.dn, orbit.astro.di, orbit.astro.dnu, orbit.astro.dxi,
                  orbit.astro.dnup, orbit.astro.dnup2, orbit.astro.dpc} :
            0 <= a /\ a < Turn

\* The orbit states of the two timestamps of the last request.
StartOrbit == AstroAt(nodal_req.timestamp)

MiddleOrbit == AstroAt(nodal_req.timestamp_middle)

\* C19: after a request the scratch orbit state is the one of
\* timestamp_middle, and every equilibrium argument is the wrapped sum of its
\* terms with s, p, h, p1 and t of timestamp and nu, xi, nup and nup2 of
\* timestamp_middle; the rows report it where the nodal factor is not 0.
C19_StartAndMiddleTerms ==
    NodalCalled =>
        /\ orbit.astro = MiddleOrbit
        /\ orbit.grterm =
               Wrapped(Terms(StartOrbit.ds, StartOrbit.dp, StartOrbit.dh, StartOrbit.dp1,
                             angle(180000 + nodal_req.timestamp.hour * 15000),
                             MiddleOrbit.dnu, MiddleOrbit.dxi, MiddleOrbit.dnup,
                             MiddleOrbit.dnup2,
                             QTable[DiRow(MiddleOrbit.di)][Sector(MiddleOrbit.dpc)],
                             RTable[DiRow(MiddleOrbit.di)][Sector(MiddleOrbit.dpc)]))
        /\ \A name \in DOMAIN con_data \cap DOMAIN NOAA_SPEEDS :
               con_data[name].nodal_factor # <<0>> =>
                   con_data[name].equilibrium_argument = <<orbit.grterm[name]>>

\* C19 witness: a request whose two timestamps differ in s, p, h, p1 and t
\* and in nu, xi, nup and nup2 returned an equilibrium argument for M2 and K1.
C19_Witness ==
    /\ NodalCalled
    /\ StartOrbit.ds # MiddleOrbit.ds /\ StartOrbit.dp # MiddleOrbit.dp
    /\ StartOrbit.dh # MiddleOrbit.dh /\ StartOrbit.dp1 # MiddleOrbit.dp1
    /\ nodal_req.timestamp.hour # nodal_req.timestamp_middle.hour
    /\ StartOrbit.dnu # MiddleOrbit.dnu /\ StartOrbit.dxi # MiddleOrbit.dxi
    /\ StartOrbit.dnup # MiddleOrbit.dnup /\ StartOrbit.dnup2 # MiddleOrbit.dnup2
    /\ {"M2", "K1"} \subseteq DOMAIN con_data
    /\ con_data["M2"].equilibrium_argument = <<orbit.grterm.M2>>
    /\ con_data["K1"].equilibrium_argument = <<orbit.grterm.K1>>

\* C20: within one request set_orbit is invoked exactly twice, for the
\* start and for the midpoint, and no invocation replaces the orbit state
\* that an earlier invocation of the same request produced.
C20_TwoIndependentOrbitStates ==
    NodalCalled =>
        /\ Len(orbit_calls) = 2
        /\ orbit_calls[1].timestamp = nodal_req.timestamp
        /\ orbit_calls[2].timestamp = nodal_req.timestamp_middle
        /\ \A k \in 2..Len(orbit_calls) :
               orbit_calls[k].replaced # AstroAt(orbit_calls[k - 1].timestamp)

\* C21: after a request the node factors of the composite constituents are
\* products of the M2 and K1 node factors of that request, which are
\* equations 78 and 227 at the orbit state of timestamp_middle:
\* M4 = M2^2, M6 = M2^3, M8 = M2^4, MK3 = M2 K1, 2MK3 = M2^2 K1, MN4 = M2^2
\* and MS4 = M2.
C21_CompositeNodalFactors ==
    NodalCalled =>
        /\ orbit.nodfac["M2"] = Equations(MiddleOrbit).eq78
        /\ orbit.nodfac["K1"] = Equations(MiddleOrbit).eq227
        /\ orbit.nodfac["M4"] = Mul(orbit.nodfac["M2"], orbit.nodfac["M2"])
        /\ orbit.nodfac["M6"] = Mul(orbit.nodfac["M4"], orbit.nodfac["M2"])
        /\ orbit.nodfac["M8"] = Mul(orbit.nodfac["M6"], orbit.nodfac["M2"])
        /\ orbit.nodfac["MK3"] = Mul(orbit.nodfac["M2"], orbit.nodfac["K1"])
        /\ orbit.nodfac["2MK3"] = Mul(orbit.nodfac["M4"], orbit.nodfac["K1"])
        /\ orbit.nodfac["MN4"] = orbit.nodfac["M4"]
        /\ orbit.nodfac["MS4"] = orbit.nodfac["M2"]

\* C21 witness: a second request on the extractor whose M2 and K1 node
\* factors differ from the ones the first request left, and from 1.
C21_Witness ==
    /\ NodalCalled
    /\ orbit_before.nodfac["M2"] # 0
    /\ orbit_before.nodfac["M2"] # orbit.nodfac["M2"]
    /\ orbit_before.nodfac["K1"] # orbit.nodfac["K1"]
    /\ orbit.nodfac["M2"] # One
    /\ orbit.nodfac["M4"] # orbit_before.nodfac["M4"]
    /\ orbit.nodfac["MK3"] # orbit_before.nodfac["MK3"]

\* The day number with the leap days counted as the floor of (year - 1901)/4.
FloorDay(ts) == ts.yday + ((ts.year - 1901) \div 4) - 1

\* C22: for every invocation of set_orbit, whatever the year of its
\* timestamp, the day number is day-of-year + floor((year - 1901)/4) - 1, and
\* the mean longitudes of the moon and of the sun that the request leaves in
\* the orbit state are the ones of that day number.
C22_DayNumberUsesFloor ==
    NodalCalled =>
        /\ \A k \in DOMAIN orbit_calls :
               Dday(orbit_calls[k].timestamp) = FloorDay(orbit_calls[k].timestamp)
        /\ orbit.astro.ds =
               angle(277026 + 129385 * Dyr(nodal_req.timestamp_middle)
                     + 13176 * FloorDay(nodal_req.timestamp_middle)
                     + 549 * nodal_req.timestamp_middle.hour)
        /\ orbit.astro.dh =
               angle(280190 - 239 * Dyr(nodal_req.timestamp_middle)
                     + 986 * FloorDay(nodal_req.timestamp_middle)
                     + 41 * nodal_req.timestamp_middle.hour)

Converted == ret # "unset"

\* The normalized pair of a point under convention z360.
NormalizedPair(pt, z360) == <<pt[1], WrapLon(pt[2], z360)>>

\* The index of the first invalid point of the list handed in, or its length
\* plus one.
FirstInvalid ==
    CHOOSE k \in 1..(Len(prev) + 1) :
        /\ \A j \in 1..(k - 1) : ~InvalidPoint(prev[j], zero_to_360)
        /\ k <= Len(prev) => InvalidPoint(prev[k], zero_to_360)

\* C24: convert_coords rewrites the caller's list in place.  Without an
\* invalid point it returns the list with every entry replaced by its
\* normalized pair; with a first invalid point k it returns None, the entries
\* before k hold their normalized pairs and the entries from k on are as
\* they were.
C24_NormalizedInPlace ==
    Converted =>
        /\ Len(coords) = Len(prev)
        /\ (ret = "list") = (FirstInvalid = Len(prev) + 1)
        /\ (ret = "None") = (FirstInvalid <= Len(prev))
        /\ \A j \in DOMAIN prev :
               coords[j] = IF j < FirstInvalid THEN NormalizedPair(prev[j], zero_to_360)
                           ELSE prev[j]

\* C24 witness: a list whose second point is invalid came back with None
\* and with its first entry overwritten by another, normalized pair.
C24_Witness ==
    /\ ret = "None"
    /\ Len(prev) = 2
    /\ FirstInvalid = 2
    /\ coords[1] # prev[1]
    /\ coords[1] = NormalizedPair(prev[1], zero_to_360)
    /\ coords[2] = prev[2]

SameHour(a, b) == a.year = b.year /\ a.yday = b.yday /\ a.hour = b.hour

\* C27: the table of a get_nodal_factor call is the table the same
\* extractor returns for the same names and any two timestamps that agree
\* with those of the call in year, day of the year and hour, whatever their
\* minutes, seconds and microseconds.
C27_TableDependsOnHourOnly ==
    NodalCalled =>
        \A s1 \in Stamps, s2 \in Stamps :
            (SameHour(s1, nodal_req.timestamp) /\ SameHour(s2, nodal_req.timestamp_middle))
                => get_nodal_factor(Scratch(orbit_before), nodal_req.names, s1, s2).con_data
                       = con_data

\* C27 witness: a request whose start is 30 minutes, 15 seconds and 500000
\* microseconds past the hour, and whose middle is on the hour, returned rows
\* for M2 and K1 with equilibrium arguments; timestamps on the same hour
\* with other minutes exist for both.
C27_Witness ==
    /\ NodalCalled
    /\ nodal_req.timestamp.minute # 0
    /\ nodal_req.timestamp.second # 0
    /\ nodal_req.timestamp.microsecond # 0
    /\ nodal_req.timestamp_middle.minute = 0
    /\ \E s1 \in Stamps : s1 # nodal_req.timestamp /\ SameHour(s1, nodal_req.timestamp)
    /\ \E s2 \in Stamps :
           s2 # nodal_req.timestamp_middle /\ SameHour(s2, nodal_req.timestamp_middle)
    /\ {"M2", "K1"} \subseteq DOMAIN con_data
    /\ con_data["M2"].equilibrium_argument # <<0>>

\* C28: in the table of a request the row of a name of the reference table
\* reports the equilibrium argument 0 when the node factor of the name is 0,
\* which it is for M1 and L2 and for no other name, and otherwise the
\* equilibrium term computed for the name, which lies in [0, 360).
C28_ZeroArgumentForZeroFactor ==
    NodalCalled =>
        /\ {name \in DOMAIN NOAA_SPEEDS : orbit.nodfac[name] = 0} = {"M1", "L2"}
        /\ \A name \in DOMAIN con_data \cap DOMAIN NOAA_SPEEDS :
               /\ con_data[name].nodal_factor = <<orbit.nodfac[name]>>
               /\ 0 <= orbit.grterm[name] /\ orbit.grterm[name] < Turn
               /\ con_data[name].equilibrium_argument =
                      IF orbit.nodfac[name] = 0 THEN <<0>> ELSE <<orbit.grterm[name]>>

\* C28 witness: a request for M1, L2 and K2 computed equilibrium terms
\* other than 0 for the three and reports 0 for M1 and L2 and the term for
\* K2.
C28_Witness ==
    /\ NodalCalled
    /\ {"M1", "L2", "K2"} \subseteq DOMAIN con_data
    /\ orbit.grterm["M1"] # 0 /\ orbit.grterm["L2"] # 0 /\ orbit.grterm["K2"] # 0
    /\ con_data["M1"].equilibrium_argument = <<0>>
    /\ con_data["L2"].equilibrium_argument = <<0>>
    /\ con_data["K2"].nodal_factor # <<0>>
    /\ con_data["K2"].equilibrium_argument = <<orbit.grterm["K2"]>>

====
